---- MODULE Spec2Model ----
(***************************************************************************)
(* Model of the Crawl4AI scrapers of ai-bazaar:                            *)
(*   src/scrapers/common.py                  slugify, categorize_*         *)
(*   src/scrapers/scrape_github_trending.py  parse_stars, scrape           *)
(*   src/scrapers/scrape_producthunt.py      parse_review_count,           *)
(*                                           extract_products_from_markdown,*)
(*                                           scrape                        *)
(*   src/scrapers/scrape_taaft.py            extract_tools_from_markdown,  *)
(*                                           scrape                        *)
(*                                                                         *)
(* Python str values are TLA+ strings (TLC evaluates Len, \o, SubSeq, Head *)
(* and Tail on them).  None and "" are both written "" wherever the code   *)
(* reads the value through `x or ""`.                                      *)
(***************************************************************************)
EXTENDS Integers, Sequences, FiniteSets, TLC

VARIABLES
    pipeline,   \* which scrape() runs: "github", "producthunt", "taaft" ("none": a function call)
    pc,         \* position in scrape(): "fetch", "items", "check", "done" ("idle": a function call)
    urlIdx,     \* index into URLS of the `for url in URLS` loop
    fetched,    \* history: the outcome of every crawler.arun so far, in URL order
    items,      \* the list the inner for loop iterates (rows / products / tools)
    itemIdx,    \* index of the next element of items
    seen,       \* seen: set[str]
    entries,    \* entries: list[dict]
    fn,         \* the pure function under call ("none": a pipeline run)
    arg,        \* its arguments
    result      \* its outcome: pending, a returned value, or a raised exception

vars == <<pipeline, pc, urlIdx, fetched, items, itemIdx, seen, entries, fn, arg, result>>

runVars == <<pipeline, pc, urlIdx, fetched, items, itemIdx, seen, entries>>
fnVars == <<fn, arg, result>>

(***************************************************************************)
(* Python str primitives                                                   *)
(***************************************************************************)
Min(a, b) == IF a <= b THEN a ELSE b

UPPER == "ABCDEFGHIJKLMNOPQRSTUVWXYZ"
LOWER == "abcdefghijklmnopqrstuvwxyz"
DIGITS == "0123456789"

Char(s, i) == SubSeq(s, i, i)

\* 0 when c does not occur in str
IndexIn(c, str) ==
    LET hits == {i \in 1..Len(str) : Char(str, i) = c}
    IN IF hits = {} THEN 0 ELSE CHOOSE i \in hits : \A j \in hits : i <= j

UpperSet == {Char(UPPER, i) : i \in 1..Len(UPPER)}
LowerSet == {Char(LOWER, i) : i \in 1..Len(LOWER)}
DigitSet == {Char(DIGITS, i) : i \in 1..Len(DIGITS)}
Whitespace == {" ", "\t", "\n", "\r"}

IsUpper(c) == c \in UpperSet
IsLowerAZ(c) == c \in LowerSet
IsDigit(c) == c \in DigitSet
IsSpace(c) == c \in Whitespace

LowerMap == [c \in UpperSet |-> Char(LOWER, IndexIn(c, UPPER))]
DigitValue == [c \in DigitSet |-> IndexIn(c, DIGITS) - 1]

LowerChar(c) == IF IsUpper(c) THEN LowerMap[c] ELSE c

\* the two halves of a string: the recursions below split their argument in two, to
\* keep the evaluation shallow on long strings
Left(s) == SubSeq(s, 1, Len(s) \div 2)
Right(s) == SubSeq(s, Len(s) \div 2 + 1, Len(s))

\* str.lower()
RECURSIVE lower(_)
lower(s) == IF Len(s) <= 1 THEN LowerChar(s) ELSE lower(Left(s)) \o lower(Right(s))

\* the positions of s whose character is not in cs
Kept(s, cs) == {i \in 1..Len(s) : Char(s, i) \notin cs}
MinOf(S) == CHOOSE i \in S : \A j \in S : i <= j
MaxOf(S) == CHOOSE i \in S : \A j \in S : i >= j

\* str.lstrip(cs), str.rstrip(cs)
lstripSet(s, cs) ==
    IF s = "" \/ Char(s, 1) \notin cs THEN s
    ELSE LET kept == Kept(s, cs)
         IN IF kept = {} THEN "" ELSE SubSeq(s, MinOf(kept), Len(s))
rstripSet(s, cs) ==
    IF s = "" \/ Char(s, Len(s)) \notin cs THEN s
    ELSE LET kept == Kept(s, cs)
         IN IF kept = {} THEN "" ELSE SubSeq(s, 1, MaxOf(kept))

\* str.strip()
strip(s) == rstripSet(lstripSet(s, Whitespace), Whitespace)

\* `kw in s`
Contains(s, kw) ==
    \E i \in 1..(Len(s) - Len(kw) + 1) : SubSeq(s, i, i + Len(kw) - 1) = kw

StartsWith(s, p) == Len(p) <= Len(s) /\ SubSeq(s, 1, Len(p)) = p
EndsWith(s, p) == Len(p) <= Len(s) /\ SubSeq(s, Len(s) - Len(p) + 1, Len(s)) = p

\* s[:n]
Take(s, n) == SubSeq(s, 1, Min(n, Len(s)))

\* s[n:] (n counted from 0)
Drop(s, n) == SubSeq(s, Min(n, Len(s)) + 1, Len(s))

(***************************************************************************)
(* common.py: slugify                                                      *)
(***************************************************************************)
SLUG_MAX == 100

IsSlugChar(c) == IsLowerAZ(c) \/ IsDigit(c)

\* re.sub(r"[^a-z0-9]+", "-", s): every character outside [a-z0-9] yields a hyphen,
\* except one that follows another character outside [a-z0-9]
RECURSIVE SubNonSlugFrom(_, _, _)
SubNonSlugFrom(s, lo, hi) ==
    IF lo > hi THEN ""
    ELSE IF lo = hi
    THEN IF IsSlugChar(Char(s, lo)) THEN Char(s, lo)
         ELSE IF lo > 1 /\ ~IsSlugChar(Char(s, lo - 1)) THEN "" ELSE "-"
    ELSE LET mid == (lo + hi) \div 2
         IN SubNonSlugFrom(s, lo, mid) \o SubNonSlugFrom(s, mid + 1, hi)

SubNonSlugRuns(s) == SubNonSlugFrom(s, 1, Len(s))

slugify(name) ==
    Take(rstripSet(lstripSet(SubNonSlugRuns(lower(name)), {"-"}), {"-"}), SLUG_MAX)

(***************************************************************************)
(* common.py: the category cascade                                         *)
(***************************************************************************)
VALID_CATEGORIES ==
    {"mcp-server", "ai-agent", "web3-tool", "defi-tool",
     "infra", "framework", "saas-tool", "api-service", "developer-tool"}

AnyIn(kws, desc) == \E kw \in kws : Contains(desc, kw)

\* topic_set = {t.lower() for t in (topics or [])}
TopicSet(topics) == {lower(topics[i]) : i \in 1..Len(topics)}

\* 1. MCP
MatchesMcp(desc, topic_set, lang) ==
    Contains(desc, "mcp") \/ Contains(desc, "model context protocol") \/ "mcp" \in topic_set

ai_keywords ==
    {"agent", "llm", "gpt", "claude", "openai", "langchain",
     "artificial intelligence", "machine-learning", "generative-ai",
     "chatbot", "natural-language-processing", "automation"}

ai_topics ==
    {"artificial-intelligence", "ai", "machine-learning", "ml",
     "chatbot", "gpt", "llm", "generative-ai", "agent"}

\* 2. AI / Agent / LLM
MatchesAi(desc, topic_set, lang) ==
    \/ AnyIn(ai_keywords, desc) \/ Contains(desc, " ai ") \/ StartsWith(desc, "ai ")
    \/ topic_set \cap ai_topics # {}

defi_keywords == {"defi", "swap", "yield", "liquidity", "amm", "dex ", "lending"}
defi_topics == {"defi", "yield", "swap", "amm", "dex", "lending"}

\* 3. DeFi
MatchesDefi(desc, topic_set, lang) ==
    AnyIn(defi_keywords, desc) \/ topic_set \cap defi_topics # {}

web3_keywords == {"web3", "blockchain", "ethereum", "solana", "smart contract", "nft", "crypto"}
web3_topics == {"web3", "blockchain", "ethereum", "solana", "crypto", "nft", "wallet"}

\* 4. Web3 / blockchain
MatchesWeb3(desc, topic_set, lang) ==
    AnyIn(web3_keywords, desc) \/ topic_set \cap web3_topics # {}

infra_keywords == {"kubernetes", " k8s", "docker", "infrastructure", "monitoring", "observability"}

\* 5. Infrastructure
MatchesInfra(desc, topic_set, lang) ==
    lang = "dockerfile" \/ AnyIn(infra_keywords, desc)

devtool_topics == {"developer-tools", "developer", "api", "sdk", "open-source", "github"}
devtool_keywords == {"developer tool", "cli tool", "code editor", "devtool"}

\* 6. Developer tools
MatchesDevtool(desc, topic_set, lang) ==
    topic_set \cap devtool_topics # {} \/ AnyIn(devtool_keywords, desc)

\* Cascade with the web3 test moved before the DeFi test
Cascade_Web3BeforeDefi(desc, topic_set, lang) ==
    IF MatchesMcp(desc, topic_set, lang) THEN "mcp-server"
    ELSE IF MatchesAi(desc, topic_set, lang) THEN "ai-agent"
    ELSE IF MatchesWeb3(desc, topic_set, lang) THEN "web3-tool"
    ELSE IF MatchesDefi(desc, topic_set, lang) THEN "defi-tool"
    ELSE IF MatchesInfra(desc, topic_set, lang) THEN "infra"
    ELSE IF MatchesDevtool(desc, topic_set, lang) THEN "developer-tool"
    ELSE "framework"

\* the chain of `if ...: return` statements, in source order
Cascade(desc, topic_set, lang) ==
    IF MatchesMcp(desc, topic_set, lang) THEN "mcp-server"
    ELSE IF MatchesAi(desc, topic_set, lang) THEN "ai-agent"
    ELSE IF MatchesDefi(desc, topic_set, lang) THEN "defi-tool"
    ELSE IF MatchesWeb3(desc, topic_set, lang) THEN "web3-tool"
    ELSE IF MatchesInfra(desc, topic_set, lang) THEN "infra"
    ELSE IF MatchesDevtool(desc, topic_set, lang) THEN "developer-tool"
    ELSE "framework"

\* topics: a sequence of strings (<<>> for None); language: a string ("" for None)
categorize_by_keywords(text, topics, language) ==
    Cascade(lower(text), TopicSet(topics), lower(language))

\* categorize_producthunt without the remapping of the default
categorize_producthunt_NoRemap(tagline, topics) ==
    categorize_by_keywords(tagline, topics, "")

categorize_producthunt(tagline, topics) ==
    LET cat == categorize_by_keywords(tagline, topics, "")
    IN IF cat = "framework" THEN "saas-tool" ELSE cat

\* scrape_taaft.py, scrape(): the category of a tool from its name
taaft_category(name) ==
    LET category == categorize_by_keywords(name, <<>>, "")
    IN IF category = "framework" THEN "ai-agent" ELSE category

(***************************************************************************)
(* The outcome of a Python call: a returned value or a raised exception    *)
(***************************************************************************)
Raise(e) == [kind |-> "raise", value |-> 0, exc |-> e]
Returned(v) == [kind |-> "return", value |-> v, exc |-> ""]
Pending == [kind |-> "pending", value |-> 0, exc |-> ""]

(***************************************************************************)
(* Python's int(str) and float(str), on ASCII text without digit-group     *)
(* underscores and without exponents                                       *)
(***************************************************************************)
AllDigits(s) == \A i \in 1..Len(s) : IsDigit(Char(s, i))

RECURSIVE DigitsValue(_)
DigitsValue(s) ==
    IF s = "" THEN 0
    ELSE DigitsValue(SubSeq(s, 1, Len(s) - 1)) * 10 + DigitValue[Char(s, Len(s))]

RECURSIVE Pow10(_)
Pow10(n) == IF n = 0 THEN 1 ELSE 10 * Pow10(n - 1)

HasSign(s) == s # "" /\ Head(s) \in {"+", "-"}
Unsigned(s) == IF HasSign(s) THEN Tail(s) ELSE s
SignOf(s) == IF s # "" /\ Head(s) = "-" THEN -1 ELSE 1

\* int(s): [ok, value]; ok = FALSE is ValueError
PyInt(s) ==
    LET t == strip(s)
        body == Unsigned(t)
    IN IF body # "" /\ AllDigits(body)
       THEN [ok |-> TRUE, value |-> SignOf(t) * DigitsValue(body)]
       ELSE [ok |-> FALSE, value |-> 0]

\* float(s): [kind, sign, digits, scale] with value sign * digits / 10^scale when
\* kind = "finite"; kind is "inf", "nan" or "ValueError" otherwise
PyFloat(s) ==
    LET t == strip(s)
        body == Unsigned(t)
        dot == IndexIn(".", body)
        whole == IF dot = 0 THEN body ELSE SubSeq(body, 1, dot - 1)
        frac == IF dot = 0 THEN "" ELSE SubSeq(body, dot + 1, Len(body))
        other(k) == [kind |-> k, sign |-> SignOf(t), digits |-> 0, scale |-> 0]
    IN IF lower(body) \in {"inf", "infinity"} THEN other("inf")
       ELSE IF lower(body) = "nan" THEN other("nan")
       ELSE IF AllDigits(whole) /\ AllDigits(frac) /\ whole \o frac # ""
       THEN [kind |-> "finite", sign |-> SignOf(t),
             digits |-> DigitsValue(whole \o frac), scale |-> Len(frac)]
       ELSE other("ValueError")

\* int(f * m) for a finite f and m in {1, 1000}: truncation toward zero
TruncScaled(f, m) == f.sign * ((f.digits * m) \div Pow10(f.scale))

(***************************************************************************)
(* scrape_github_trending.py: parse_stars                                  *)
(***************************************************************************)
RECURSIVE RemoveCommas(_)
RemoveCommas(s) ==
    IF s = "" THEN ""
    ELSE IF Head(s) = "," THEN RemoveCommas(Tail(s))
    ELSE Head(s) \o RemoveCommas(Tail(s))

parse_stars(text0) ==
    LET text == RemoveCommas(strip(text0))
    IN IF text = "" THEN Returned(0)
       ELSE IF EndsWith(lower(text), "k")
       THEN LET f == PyFloat(SubSeq(text, 1, Len(text) - 1))
            IN CASE f.kind = "ValueError" -> Returned(0)
                 [] f.kind = "nan" -> Returned(0)          \* int(nan): ValueError, caught
                 [] f.kind = "inf" -> Raise("OverflowError") \* int(inf): not a ValueError
                 [] OTHER -> Returned(TruncScaled(f, 1000))
       ELSE LET n == PyInt(text)
            IN IF n.ok THEN Returned(n.value) ELSE Returned(0)

(***************************************************************************)
(* scrape_producthunt.py: parse_review_count                               *)
(***************************************************************************)
IsNumChar(c) == IsDigit(c) \/ c = "."

\* the end of the run of [\d.] characters that starts at i
RECURSIVE NumRunEnd(_, _)
NumRunEnd(text, i) ==
    IF i < Len(text) /\ IsNumChar(Char(text, i + 1)) THEN NumRunEnd(text, i + 1) ELSE i

\* what follows the number: \s*K?\s*reviews? ; <<matches, a K was consumed>>
ReviewTail(rest) ==
    LET a == lstripSet(rest, Whitespace)
        hasK == a # "" /\ lower(Head(a)) = "k"
        b == IF hasK THEN lstripSet(Tail(a), Whitespace) ELSE a
    IN <<StartsWith(lower(b), "review"), hasK>>

\* the start positions at which r'([\d.]+)\s*K?\s*reviews?' matches
ReviewMatches(text) ==
    {i \in 1..Len(text) :
        /\ IsNumChar(Char(text, i))
        /\ ReviewTail(SubSeq(text, NumRunEnd(text, i) + 1, Len(text)))[1]}

parse_review_count(text) ==
    LET starts == ReviewMatches(text)
    IN IF starts = {} THEN Returned(0)
       ELSE LET i == CHOOSE k \in starts : \A j \in starts : k <= j
                e == NumRunEnd(text, i)
                num == SubSeq(text, i, e)
                hasK == ReviewTail(SubSeq(text, e + 1, Len(text)))[2]
                f == PyFloat(num)
            IN IF f.kind = "ValueError" THEN Raise("ValueError")  \* float(num) is not guarded
               ELSE Returned(TruncScaled(f, IF hasK THEN 1000 ELSE 1))

(***************************************************************************)
(* scrape_github_trending.py: language_to_runtime                          *)
(***************************************************************************)
language_to_runtime(lang) ==
    LET lang_lower == strip(lower(lang))
    IN IF lang = "" THEN "None"
       ELSE IF lang_lower \in {"typescript", "javascript"} THEN "node"
       ELSE IF lang_lower \in {"python", "rust", "go"} THEN lang_lower
       ELSE "other"

(***************************************************************************)
(* scrape_producthunt.py: extract_products_from_markdown                   *)
(*                                                                         *)
(* The markdown is given by what re.finditer(pattern, md) yields on it:    *)
(* the sequence, in document order, of [text |-> group(1), slug |->        *)
(* group(3)]; group(2), the URL, is the fixed prefix followed by the slug, *)
(* the optional /reviews... suffix being outside the groups.               *)
(***************************************************************************)
\* re.match(r'^[\d.,]+K?\s*reviews?$', text, re.IGNORECASE)
IsReviewCountText(text) ==
    LET t == lower(text)
        rest == lstripSet(t, DigitSet \cup {".", ","})
        a == IF StartsWith(rest, "k") THEN Tail(rest) ELSE rest
        b == lstripSet(a, Whitespace)
    IN Len(rest) < Len(t) /\ b \in {"review", "reviews"}

PH_STOPLIST == {"view all", "see all", "reviews", "promoted", ""}

\* the filters of the loop that precede the duplicate test
IsProductNoise(text) ==
    \/ IsReviewCountText(text)
    \/ lower(text) \in PH_STOPLIST
    \/ Len(text) < 2 \/ Len(text) > 200

\* text[1..e] matches [A-Z][^\s]+(?: [A-Z][^\s]+)* and a whitespace character follows
IsCapitalisedPrefix(text, e) ==
    /\ e < Len(text) /\ IsSpace(Char(text, e + 1))
    /\ \A i \in 1..e :
          /\ IsSpace(Char(text, i)) =>
                /\ Char(text, i) = " " /\ 1 < i /\ i < e
                /\ ~IsSpace(Char(text, i - 1)) /\ ~IsSpace(Char(text, i + 1))
          /\ (~IsSpace(Char(text, i)) /\ (i = 1 \/ IsSpace(Char(text, i - 1)))) =>
                /\ IsUpper(Char(text, i))
                /\ i < e /\ ~IsSpace(Char(text, i + 1))

\* text[e+1..] matches \s+(The |A |An |[A-Z][a-z])
IsTaglineStart(text, e) ==
    LET rest == lstripSet(SubSeq(text, e + 1, Len(text)), Whitespace)
    IN \/ StartsWith(rest, "The ") \/ StartsWith(rest, "A ") \/ StartsWith(rest, "An ")
       \/ Len(rest) >= 2 /\ IsUpper(Char(rest, 1)) /\ IsLowerAZ(Char(rest, 2))

\* name_split.end(1), 0 when the pattern does not match: the repetition is greedy, so
\* the match found first is the one with the longest group 1
NameSplitPos(text) ==
    LET ends == {e \in 1..Len(text) : IsCapitalisedPrefix(text, e) /\ IsTaglineStart(text, e)}
    IN IF ends = {} THEN 0 ELSE MaxOf(ends)

ProductOf(text, slug, pos) ==
    LET split_pos == NameSplitPos(text)
        name == IF split_pos > 0 THEN strip(Take(text, split_pos)) ELSE text
        split_tagline == IF split_pos > 0 THEN strip(Drop(text, split_pos)) ELSE ""
        tagline == IF split_tagline = ""
                   THEN "Discovered on Product Hunt: " \o name ELSE split_tagline
    IN [name |-> name, tagline |-> tagline,
        url |-> "https://www.producthunt.com/products/" \o slug,
        slug |-> slug, pos |-> pos]

HasSlug(list, slug) == \E j \in 1..Len(list) : list[j].slug = slug

\* the loop over the matches from match i on; products is the dict built so far, in
\* insertion order
RECURSIVE ExtractProductsFrom(_, _, _)
ExtractProductsFrom(matches, i, products) ==
    IF i > Len(matches) THEN products
    ELSE LET text == strip(matches[i].text)
             slug == matches[i].slug
         IN ExtractProductsFrom(matches, i + 1,
                IF IsProductNoise(text) \/ HasSlug(products, slug) THEN products
                ELSE Append(products, ProductOf(text, slug, i)))

extract_products_from_markdown(matches) == ExtractProductsFrom(matches, 1, <<>>)

(***************************************************************************)
(* scrape_taaft.py: extract_tools_from_markdown, on the matches of its     *)
(* pattern: [text |-> group(1), slug |-> group(2)]                         *)
(***************************************************************************)
\* re.match(r'^[\d,.\s]+$', text)
IsStatsText(text) ==
    /\ text # ""
    /\ \A i \in 1..Len(text) :
          IsDigit(Char(text, i)) \/ Char(text, i) \in {",", "."} \/ IsSpace(Char(text, i))

IsToolNoise(text) ==
    \/ IsStatsText(text)
    \/ StartsWith(lower(text), "free")
    \/ StartsWith(text, "$")
    \/ Len(text) < 2 \/ Len(text) > 100

\* the positions j of a "v" that begins the version suffix \s+v[\d.]+\s*$
VersionMarks(text) ==
    {j \in 2..(Len(text) - 1) :
        /\ Char(text, j) = "v" /\ IsSpace(Char(text, j - 1))
        /\ \A i \in (j + 1)..Len(text) : IsDigit(Char(text, i)) \/ Char(text, i) = "."}

\* re.sub(r'\s+v[\d.]+\s*$', '', text).strip(), text being stripped already
CleanToolName(text) ==
    IF VersionMarks(text) = {} THEN strip(text)
    ELSE strip(Take(text, MinOf(VersionMarks(text)) - 1))

ToolOf(name, slug, pos) ==
    [name |-> name, slug |-> slug,
     url |-> "https://theresanaiforthat.com/ai/" \o slug \o "/", pos |-> pos]

RECURSIVE ExtractToolsFrom(_, _, _)
ExtractToolsFrom(matches, i, tools) ==
    IF i > Len(matches) THEN tools
    ELSE LET text == strip(matches[i].text)
             slug == matches[i].slug
             name == CleanToolName(text)
         IN ExtractToolsFrom(matches, i + 1,
                IF HasSlug(tools, slug) \/ IsToolNoise(text) \/ name = "" THEN tools
                ELSE Append(tools, ToolOf(name, slug, i)))

extract_tools_from_markdown(matches) == ExtractToolsFrom(matches, 1, <<>>)

\* the arguments of a call
Args(text, topics, language) == [text |-> text, topics |-> topics, language |-> language]

(***************************************************************************)
(* scrape(): the three pipelines                                           *)
(*                                                                         *)
(* Every entry carries, beside the fields of the dict the code appends     *)
(* (description, tags and submittedBy, which nothing here reads, are left  *)
(* out), two history fields: key, the value the loop added to seen for it, *)
(* and origin, <<index of the URL, position in the fetched content>>.      *)
(***************************************************************************)
MAX_RESULTS == 2
NumUrls == 2
MaxBlobLen == 2

Pipelines == {"github", "producthunt", "taaft"}

\* url_topics.get(topic_key, []) for URLS[u] of scrape_producthunt.py
UrlTopics(u) ==
    IF u = 1 THEN <<"artificial-intelligence", "ai">> ELSE <<"developer-tools", "developer">>

\* rows as JsonCssExtractionStrategy(SCHEMA) yields them; "" is a missing field
GithubRows ==
    {[repo_path |-> "/a/b-c", description |-> "An MCP server", language |-> "Python",
      stars_text |-> " 1,234 "],
     [repo_path |-> "/a-b/c", description |-> "", language |-> "", stars_text |-> "12.5k"],
     [repo_path |-> " /a/b-c ", description |-> "Docker images", language |-> "Dockerfile",
      stars_text |-> ""],
     [repo_path |-> "/", description |-> "", language |-> "", stars_text |-> ""],
     [repo_path |-> "/d/e", description |-> "token swap", language |-> "Go",
      stars_text |-> "infk"],
     [repo_path |-> "", description |-> "no link", language |-> "", stars_text |-> "7"]}

ProducthuntMatches ==
    {[text |-> "Acme Fix your bugs fast", slug |-> "acme"],
     [text |-> "1.4K reviews", slug |-> "acme"],
     [text |-> "View all", slug |-> "beta"],
     [text |-> " Beta ", slug |-> "beta"],
     [text |-> "Beta", slug |-> "beta-2"]}

TaaftMatches ==
    {[text |-> "Chat v1.2", slug |-> "chat"],
     [text |-> "Free + from $5/mo", slug |-> "chat"],
     [text |-> "18,458108", slug |-> "chat"],
     [text |-> "Chat", slug |-> "chat-2"],
     [text |-> "MCP Agent", slug |-> "mcp-agent"]}

RECURSIVE SeqsUpTo(_, _)
SeqsUpTo(S, n) ==
    IF n = 0 THEN {<<>>}
    ELSE LET P == SeqsUpTo(S, n - 1) IN P \cup {Append(q, x) : q \in P, x \in S}

\* what a successful crawler.arun may hand back: rows, or the matches of the markdown
Contents(p) ==
    SeqsUpTo(CASE p = "github" -> GithubRows
               [] p = "producthunt" -> ProducthuntMatches
               [] OTHER -> TaaftMatches, MaxBlobLen)

\* the rows with their positions
RECURSIVE Numbered(_, _)
Numbered(rows, i) ==
    IF i > Len(rows) THEN <<>>
    ELSE <<[row |-> rows[i], pos |-> i]>> \o Numbered(rows, i + 1)

\* the list the inner loop of scrape() iterates
Extract(p, content) ==
    CASE p = "github" -> Numbered(content, 1)
      [] p = "producthunt" -> extract_products_from_markdown(content)
      [] OTHER -> extract_tools_from_markdown(content)

\* the value the loop looks up in seen (and adds to it) for an element of items
KeyOf(p, item) == IF p = "github" THEN strip(item.row.repo_path) ELSE item.slug

GithubEntry(row, repo_path, stars, origin) ==
    LET full_name == lstripSet(repo_path, {"/"})
        desc == strip(row.description)
        lang == strip(row.language)
    IN [slug |-> slugify(full_name),
        name |-> full_name,
        tagline |-> Take(IF desc # "" THEN desc ELSE "GitHub trending: " \o full_name, 160),
        category |-> categorize_by_keywords(desc, <<>>, lang),
        sourceUrl |-> "https://github.com/" \o full_name,
        runtime |-> language_to_runtime(lang),
        stars |-> stars,
        key |-> repo_path, origin |-> origin]

\* the slug of a Product Hunt entry taken from the name, as the other pipelines do
ProducthuntSlug_FromName(prod) == slugify(prod.name)

\* "slug": prod["slug"]
ProducthuntSlug(prod) == prod.slug

ProducthuntEntry(prod, topics, origin) ==
    [slug |-> ProducthuntSlug(prod),
     name |-> prod.name,
     tagline |-> Take(prod.tagline, 160),
     category |-> categorize_producthunt(prod.tagline, topics),
     sourceUrl |-> prod.url,
     stars |-> 0,
     key |-> prod.slug, origin |-> origin]

TaaftEntry(tool, origin) ==
    [slug |-> slugify(tool.name),
     name |-> tool.name,
     tagline |-> Take("AI tool: " \o tool.name, 160),
     category |-> taaft_category(tool.name),
     sourceUrl |-> tool.url,
     stars |-> 0,
     key |-> tool.slug, origin |-> origin]

InitRun ==
    /\ pipeline \in Pipelines
    /\ pc = "fetch" /\ urlIdx = 1 /\ fetched = <<>>
    /\ items = <<>> /\ itemIdx = 0
    /\ seen = {} /\ entries = <<>>
    /\ fn = "none" /\ arg = Args("", <<>>, "") /\ result = Pending

\* `continue` of the URL loop, and its end once URLS is exhausted
NextUrl ==
    /\ urlIdx' = urlIdx + 1
    /\ pc' = IF urlIdx + 1 > NumUrls THEN "done" ELSE "fetch"

\* `if not result.success: continue`
FetchFailed ==
    /\ pc = "fetch"
    /\ fetched' = Append(fetched, [status |-> "failed", content |-> <<>>])
    /\ NextUrl
    /\ UNCHANGED <<pipeline, items, itemIdx, seen, entries, fnVars>>

\* `if not result.extracted_content: continue` / `if not result.markdown: continue`
FetchEmpty ==
    /\ pc = "fetch"
    /\ fetched' = Append(fetched, [status |-> "empty", content |-> <<>>])
    /\ NextUrl
    /\ UNCHANGED <<pipeline, items, itemIdx, seen, entries, fnVars>>

\* a fetch with content: json.loads / the extractor, up to the head of the inner loop
FetchOk ==
    /\ pc = "fetch"
    /\ \E content \in Contents(pipeline) :
          /\ fetched' = Append(fetched, [status |-> "ok", content |-> content])
          /\ items' = Extract(pipeline, content)
    /\ itemIdx' = 1
    /\ pc' = "items"
    /\ UNCHANGED <<pipeline, urlIdx, seen, entries, fnVars>>

\* the cap test off by one
CapReached_OffByOne(n) == n > MAX_RESULTS

\* `if len(entries) >= MAX_RESULTS: break` at the end of the inner loop's body
CapReached(n) == n >= MAX_RESULTS

\* the tail of the inner loop's body: append, then the cap test
Emit(entry) ==
    /\ entries' = Append(entries, entry)
    /\ IF CapReached(Len(entries) + 1)
       THEN pc' = "check" /\ itemIdx' = itemIdx
       ELSE pc' = pc /\ itemIdx' = itemIdx + 1

\* `continue` of the inner loop
SkipItem == itemIdx' = itemIdx + 1 /\ UNCHANGED <<pc, seen, entries>>

\* the loop without its lookup in seen
IsDuplicate_Never(key) == FALSE

\* `... in seen`, the test that guards the body of the inner loop
IsDuplicate(key) == key \in seen

\* one iteration of `for row in rows` (scrape_github_trending.py)
GithubRow ==
    /\ pipeline = "github" /\ pc = "items" /\ itemIdx <= Len(items)
    /\ LET row == items[itemIdx].row
           repo_path == strip(row.repo_path)
           stars == parse_stars(row.stars_text)
       IN IF repo_path = "" \/ IsDuplicate(repo_path) THEN SkipItem
          ELSE /\ seen' = seen \cup {repo_path}
               /\ IF stars.kind = "raise"
                  THEN pc' = "raised" /\ UNCHANGED <<itemIdx, entries>>
                  ELSE Emit(GithubEntry(row, repo_path, stars.value,
                                        <<urlIdx, items[itemIdx].pos>>))
    /\ UNCHANGED <<pipeline, urlIdx, fetched, items, fnVars>>

\* one iteration of `for prod in products` (scrape_producthunt.py)
ProducthuntProduct ==
    /\ pipeline = "producthunt" /\ pc = "items" /\ itemIdx <= Len(items)
    /\ LET prod == items[itemIdx]
       IN IF IsDuplicate(prod.slug) THEN SkipItem
          ELSE /\ seen' = seen \cup {prod.slug}
               /\ Emit(ProducthuntEntry(prod, UrlTopics(urlIdx), <<urlIdx, prod.pos>>))
    /\ UNCHANGED <<pipeline, urlIdx, fetched, items, fnVars>>

\* one iteration of `for tool in tools` (scrape_taaft.py)
TaaftTool ==
    /\ pipeline = "taaft" /\ pc = "items" /\ itemIdx <= Len(items)
    /\ LET tool == items[itemIdx]
       IN IF IsDuplicate(tool.slug) THEN SkipItem
          ELSE /\ seen' = seen \cup {tool.slug}
               /\ Emit(TaaftEntry(tool, <<urlIdx, tool.pos>>))
    /\ UNCHANGED <<pipeline, urlIdx, fetched, items, fnVars>>

\* the inner loop runs out of elements
EndItems ==
    /\ pc = "items" /\ itemIdx > Len(items)
    /\ pc' = "check"
    /\ UNCHANGED <<pipeline, urlIdx, fetched, items, itemIdx, seen, entries, fnVars>>

\* `if len(entries) >= MAX_RESULTS: break` after the inner loop
CapCheck ==
    /\ pc = "check"
    /\ IF CapReached(Len(entries))
       THEN pc' = "done" /\ urlIdx' = urlIdx
       ELSE NextUrl
    /\ UNCHANGED <<pipeline, fetched, items, itemIdx, seen, entries, fnVars>>

NextRun ==
    \/ FetchFailed \/ FetchEmpty \/ FetchOk
    \/ GithubRow \/ ProducthuntProduct \/ TaaftTool
    \/ EndItems \/ CapCheck

Init == InitRun
Next == NextRun
Spec == Init /\ [][Next]_vars

(***************************************************************************)
(* Calls of the pure functions: the inputs are drawn in the initial state, *)
(* the call is one step                                                    *)
(***************************************************************************)
MaxNameLen == 3
MaxFrags == 3
MaxNumLen == 4

\* the strings made of at most n fragments of A
RECURSIVE Strs(_, _)
Strs(A, n) ==
    IF n = 0 THEN {""}
    ELSE LET P == Strs(A, n - 1) IN P \cup {p \o c : p \in P, c \in A}

RECURSIVE Pad(_, _)
Pad(c, n) ==
    IF n = 0 THEN ""
    ELSE IF n % 2 = 0 THEN LET h == Pad(c, n \div 2) IN h \o h
    ELSE c \o Pad(c, n - 1)

\* names: short ones, and ones whose slug is about SLUG_MAX characters long
SlugInputs ==
    {Pad("a", p) \o s :
        p \in {0, SLUG_MAX - 2, SLUG_MAX - 1, SLUG_MAX},
        s \in Strs({"b", "Z", "7", "-", " "}, MaxNameLen)}

CatExamples ==
    {"mcp server for defi swaps", "a yield-farming defi protocol",
     "a new way to manage tasks", "Model Context Protocol bridge",
     "swap tokens on the blockchain", "Kubernetes monitoring", "a CLI tool"}

CatTexts ==
    Strs({"mcp", "Agent", "ai", " ", "defi", "web3", "docker", "devtool"}, MaxFrags)
        \cup CatExamples

CatTopics == {<<>>, <<"MCP">>, <<"ai">>, <<"swap">>, <<"Wallet", "defi">>, <<"sdk">>, <<"other">>}
CatLanguages == {"", "Dockerfile", "Python"}

StarsInputs ==
    {lead \o body \o tail :
        lead \in {"", " "},
        body \in Strs({"1", "2", "5", ".", ",", "-"}, MaxNumLen)
                    \cup {"12.5", "1,234", "garbage", "inf", "Infinity", "nan", "+5"},
        tail \in {"", "k", "K", "k ", " k", "x"}}

ReviewInputs ==
    {lead \o num \o tail :
        lead \in {"", "x ", "7 "},
        num \in Strs({"1", "4", "."}, MaxNumLen) \cup {"630"},
        tail \in {"", "K", " reviews", "K reviews", " k review", "reviews ago", " Kreviews", " stars"}}

FnIdle ==
    /\ pipeline = "none" /\ pc = "idle" /\ urlIdx = 0 /\ fetched = <<>>
    /\ items = <<>> /\ itemIdx = 0 /\ seen = {} /\ entries = <<>>

InitCall(f, inputs) ==
    FnIdle /\ fn = f /\ arg \in inputs /\ result = Pending

Call(f, outcome) ==
    /\ fn = f /\ result.kind = "pending"
    /\ result' = outcome
    /\ UNCHANGED <<runVars, fn, arg>>

Init_slugify == InitCall("slugify", {Args(n, <<>>, "") : n \in SlugInputs})
Call_slugify == Call("slugify", Returned(slugify(arg.text)))

Init_categorize_by_keywords ==
    InitCall("categorize_by_keywords",
             {Args(t, tp, l) : t \in CatTexts, tp \in CatTopics, l \in CatLanguages})
Call_categorize_by_keywords ==
    Call("categorize_by_keywords",
         Returned(categorize_by_keywords(arg.text, arg.topics, arg.language)))

Init_categorize_producthunt ==
    InitCall("categorize_producthunt", {Args(t, tp, "") : t \in CatTexts, tp \in CatTopics})
Call_categorize_producthunt ==
    Call("categorize_producthunt", Returned(categorize_producthunt(arg.text, arg.topics)))

Init_parse_stars == InitCall("parse_stars", {Args(t, <<>>, "") : t \in StarsInputs})
Call_parse_stars == Call("parse_stars", parse_stars(arg.text))

Init_parse_review_count ==
    InitCall("parse_review_count", {Args(t, <<>>, "") : t \in ReviewInputs})
Call_parse_review_count == Call("parse_review_count", parse_review_count(arg.text))

SpecSlugify == Init_slugify /\ [][Call_slugify]_vars
SpecCategorize == Init_categorize_by_keywords /\ [][Call_categorize_by_keywords]_vars
SpecParse ==
    /\ (Init_parse_stars \/ Init_parse_review_count)
    /\ [][Call_parse_stars \/ Call_parse_review_count]_vars

\* the three-way specialisation of the cascade, pipeline runs and calls together
SpecRemap ==
    /\ (InitRun \/ Init_categorize_producthunt)
    /\ [][NextRun \/ Call_categorize_producthunt]_vars

(***************************************************************************)
(* What the fetched contents hold, read off the history variable           *)
(***************************************************************************)
Occurrences == {<<u, i>> \in (1..NumUrls) \X (1..(MaxBlobLen + 1)) :
                    u <= Len(fetched) /\ i <= Len(fetched[u].content)}

OccKey(o) ==
    LET x == fetched[o[1]].content[o[2]]
    IN IF pipeline = "github" THEN strip(x.repo_path) ELSE x.slug

\* the occurrence passes the noise filters of its pipeline
Survives(o) ==
    LET x == fetched[o[1]].content[o[2]]
    IN CASE pipeline = "github" -> strip(x.repo_path) # ""
         [] pipeline = "producthunt" -> ~IsProductNoise(strip(x.text))
         [] OTHER -> ~IsToolNoise(strip(x.text)) /\ CleanToolName(strip(x.text)) # ""

Survivors == {o \in Occurrences : Survives(o)}

\* the dedup keys of the valid candidates: they pass the filters and have a name
ValidKeys == {OccKey(o) : o \in {x \in Survivors : lstripSet(OccKey(x), {"/"}) # ""}}

\* URL order, then document order
Before(o1, o2) == o1[1] < o2[1] \/ (o1[1] = o2[1] /\ o1[2] <= o2[2])

FirstSurvivor(k) ==
    CHOOSE o \in Survivors :
        OccKey(o) = k /\ \A o2 \in Survivors : OccKey(o2) = k => Before(o, o2)

EntryKeys == {entries[i].key : i \in 1..Len(entries)}
RunEnded == pc \in {"done", "raised"}
IsRun == pipeline \in Pipelines

(***************************************************************************)
(* Claims                                                                  *)
(***************************************************************************)

\* C1: the number of emitted records never exceeds MAX_RESULTS, and a run whose fetched
\* contents hold at least MAX_RESULTS valid candidates with distinct dedup keys ends
\* with exactly MAX_RESULTS records.
C1_CapEnforced ==
    IsRun =>
        /\ Len(entries) <= MAX_RESULTS
        /\ (RunEnded /\ Cardinality(ValidKeys) >= MAX_RESULTS) =>
              (pc = "done" /\ Len(entries) = MAX_RESULTS)

\* C2: seen only grows; no two records of a run have the same dedup key, and the record
\* of a key comes from the first occurrence of the key, in URL order then document
\* order, that passes the noise filters.
C2_Step ==
    /\ seen \subseteq seen'
    /\ \/ entries' = entries
       \/ /\ Len(entries') = Len(entries) + 1
          /\ SubSeq(entries', 1, Len(entries)) = entries
          /\ LET e == entries'[Len(entries')]
             IN /\ e.key \notin EntryKeys
                /\ e.key \notin seen
                /\ e.key \in seen'
                /\ e.origin \in Survivors
                /\ OccKey(e.origin) = e.key
                /\ e.origin = FirstSurvivor(e.key)

\* C2: every step of a run keeps seen growing and adds at most one record, the first
\* surviving occurrence of a key that is neither in seen nor among the records.
C2_FirstOccurrenceOnly == [][C2_Step]_vars

\* C2 witness: a finished run in which a key that has a record occurs again, passing the
\* filters, later in the same content and in the content of the next URL.
C2_Witness ==
    /\ pc = "done"
    /\ \E i \in 1..Len(entries) : \E o1, o2 \in Survivors :
          /\ OccKey(o1) = entries[i].key /\ OccKey(o2) = entries[i].key
          /\ o1 # entries[i].origin /\ o1[1] = entries[i].origin[1]
          /\ o2[1] > entries[i].origin[1]

\* C3: categorize_by_keywords returns the category of the first of the six rules, in
\* the order mcp-server, ai-agent, defi-tool, web3-tool, infra, developer-tool, whose
\* predicate holds, framework when none holds; the result is one of the nine categories.
RuleCategory ==
    <<"mcp-server", "ai-agent", "defi-tool", "web3-tool", "infra", "developer-tool">>

RuleHolds(r, desc, topic_set, lang) ==
    CASE r = 1 -> MatchesMcp(desc, topic_set, lang)
      [] r = 2 -> MatchesAi(desc, topic_set, lang)
      [] r = 3 -> MatchesDefi(desc, topic_set, lang)
      [] r = 4 -> MatchesWeb3(desc, topic_set, lang)
      [] r = 5 -> MatchesInfra(desc, topic_set, lang)
      [] OTHER -> MatchesDevtool(desc, topic_set, lang)

C3_FirstMatchingRuleWins ==
    (fn = "categorize_by_keywords" /\ result.kind = "return") =>
        LET desc == lower(arg.text)
            topic_set == TopicSet(arg.topics)
            lang == lower(arg.language)
            matching == {r \in 1..6 : RuleHolds(r, desc, topic_set, lang)}
        IN /\ result.value \in VALID_CATEGORIES
           /\ result.value = IF matching = {} THEN "framework"
                             ELSE RuleCategory[MinOf(matching)]
           /\ (Contains(desc, "mcp") /\ AnyIn(defi_keywords, desc)) =>
                 result.value = "mcp-server"
           /\ (AnyIn(defi_keywords, desc) /\ AnyIn(web3_keywords, desc)
                 /\ 1 \notin matching /\ 2 \notin matching) => result.value = "defi-tool"
           /\ arg.text = "mcp server for defi swaps" => result.value = "mcp-server"
           /\ (arg.text = "a yield-farming defi protocol" /\ matching \cap {1, 2} = {}) =>
                 result.value = "defi-tool"

\* C3 witness: a text with a DeFi and a web3 keyword and no MCP or AI signal was
\* categorized, and a text with an MCP and a DeFi keyword was.
C3_Witness ==
    /\ fn = "categorize_by_keywords" /\ result.kind = "return"
    /\ arg.text = "swap tokens on the blockchain" /\ arg.topics = <<>>
    /\ result.value = "defi-tool"

\* C4: slugify(n) consists of characters of [a-z0-9-], is at most 100 characters long
\* and neither begins nor ends with a hyphen.
C4_SlugShape ==
    (fn = "slugify" /\ result.kind = "return") =>
        LET slug == result.value
        IN /\ \A i \in 1..Len(slug) : IsSlugChar(Char(slug, i)) \/ Char(slug, i) = "-"
           /\ Len(slug) <= 100
           /\ ~StartsWith(slug, "-")
           /\ ~EndsWith(slug, "-")

\* C5: a fetch that fails, or succeeds with empty content, contributes no record; the
\* run is not aborted, every remaining URL is fetched unless the cap is reached, and
\* the run returns the records gathered from the other URLs.
C5_FetchFailureSkipsUrl ==
    IsRun =>
        \A u \in 1..Len(fetched) :
            fetched[u].status \in {"failed", "empty"} =>
                /\ \A i \in 1..Len(entries) : entries[i].origin[1] # u
                /\ pc # "raised"
                /\ pc = "done" =>
                      /\ Len(fetched) = NumUrls \/ Len(entries) >= MAX_RESULTS
                      /\ ValidKeys \subseteq EntryKeys \/ Len(entries) >= MAX_RESULTS

\* a decimal: digits with at most one point
IsDecimalText(t) == PyFloat(t).kind = "finite" /\ ~HasSign(t) /\ strip(t) = t

\* C6: the numeric parsers never raise; parse_stars returns the decimal times 1000 for
\* a decimal followed by k or K, the integer for digits with optional thousands
\* commas, and 0 for every other input; parse_review_count returns an integer.
C6_ParsersNeverRaise ==
    (fn \in {"parse_stars", "parse_review_count"} /\ result.kind # "pending") =>
        /\ result.kind = "return"
        /\ fn = "parse_stars" =>
              LET t == RemoveCommas(strip(arg.text))
                  d == SubSeq(t, 1, Len(t) - 1)
              IN IF t # "" /\ EndsWith(lower(t), "k") /\ IsDecimalText(d)
                 THEN result.value = TruncScaled(PyFloat(d), 1000)
                 ELSE IF t # "" /\ AllDigits(t) THEN result.value = DigitsValue(t)
                 ELSE result.value = 0

\* C7: every emitted record has a non-empty name.
C7_NamesNonEmpty ==
    IsRun => \A i \in 1..Len(entries) : entries[i].name # ""

\* C8: categorize_producthunt returns saas-tool exactly when the cascade returns
\* framework for the same tagline and topics, the TAAFT pipeline replaces the cascade's
\* result by ai-agent exactly when that result is framework, every other result of
\* the cascade is passed through, and no record of the Product Hunt or TAAFT pipeline
\* has category framework.  (The taglines of the model are shorter than the 160
\* characters an entry keeps.)
C8_RemapOnlyDefault ==
    /\ (fn = "categorize_producthunt" /\ result.kind = "return") =>
          LET cat == categorize_by_keywords(arg.text, arg.topics, "")
          IN /\ result.value = "saas-tool" <=> cat = "framework"
             /\ cat # "framework" => result.value = cat
    /\ pipeline = "producthunt" =>
          \A i \in 1..Len(entries) :
              LET cat == categorize_by_keywords(entries[i].tagline,
                                                UrlTopics(entries[i].origin[1]), "")
              IN /\ entries[i].category = "saas-tool" <=> cat = "framework"
                 /\ cat # "framework" => entries[i].category = cat
                 /\ entries[i].category # "framework"
    /\ pipeline = "taaft" =>
          \A i \in 1..Len(entries) :
              LET cat == categorize_by_keywords(entries[i].name, <<>>, "")
              IN /\ entries[i].category # cat <=> cat = "framework"
                 /\ cat = "framework" => entries[i].category = "ai-agent"
                 /\ entries[i].category # "framework"

\* C8 witness: the call of the spec's example returned saas-tool.
C8_Witness ==
    /\ fn = "categorize_producthunt" /\ result.kind = "return"
    /\ arg.text = "a new way to manage tasks" /\ arg.topics = <<>>
    /\ result.value = "saas-tool"

\* C9 as stated: when the run ends with the cap reached, every item of the content
\* during which it was reached has been looked up in seen and its key recorded.
C9_BlobCompletesFiltering ==
    (IsRun /\ pc = "done" /\ Len(entries) >= MAX_RESULTS) =>
        \A o \in Survivors : o[1] = Len(fetched) => OccKey(o) \in seen

\* C9 amended: once the cap is reached no record is added, nothing is fetched and the
\* inner loop has stopped at the item that reached it: seen holds the keys of the
\* emitted records and no other.
C9_Step ==
    Len(entries) >= MAX_RESULTS =>
        /\ entries' = entries /\ seen' = seen /\ fetched' = fetched
        /\ items' = items /\ itemIdx' = itemIdx

C9_AtCap ==
    (IsRun /\ Len(entries) >= MAX_RESULTS) =>
        /\ Len(entries) = MAX_RESULTS
        /\ seen = EntryKeys
        /\ pc \in {"check", "done"}
        /\ entries[Len(entries)].origin = <<Len(fetched), items[itemIdx].pos>>

C9_StopsAtCap == C9_AtCap /\ [][C9_AtCap' /\ C9_Step]_vars

\* C9 witness: a run ended at the cap with an item of the last content, after the one
\* that reached the cap, whose key is not in seen.
C9_Witness ==
    /\ pc = "done" /\ Len(entries) >= MAX_RESULTS
    /\ \E o \in Survivors :
          /\ o[1] = Len(fetched) /\ o[2] > entries[Len(entries)].origin[2]
          /\ OccKey(o) \notin seen

\* C10 as stated: no two records of a run have the same slug.
C10_SlugsUnique ==
    IsRun => \A i, j \in 1..Len(entries) : entries[i].slug = entries[j].slug => i = j

\* C10 amended: no two records of a run have the same dedup key; in the Product Hunt
\* pipeline the slug is the dedup key, so no two records have the same slug.
C10_KeysUnique ==
    IsRun =>
        /\ \A i, j \in 1..Len(entries) : entries[i].key = entries[j].key => i = j
        /\ pipeline = "producthunt" =>
              /\ \A i \in 1..Len(entries) :
                    entries[i].sourceUrl =
                        "https://www.producthunt.com/products/" \o entries[i].slug
              /\ \A i, j \in 1..Len(entries) : entries[i].slug = entries[j].slug => i = j

\* C10 witness: a Product Hunt run emitted two records with the same name.
C10_Witness ==
    /\ pipeline = "producthunt" /\ pc = "done"
    /\ \E i, j \in 1..Len(entries) : i # j /\ entries[i].name = entries[j].name

====
